---- MODULE Spec2Model ----
(***************************************************************************)
(* whatisrunning: the train registry (table trains), the run ledger (table *)
(* train_runs) and the WebSocket broadcast of src/server.js, as a state    *)
(* machine.  Node runs every HTTP handler and every WebSocket callback to  *)
(* completion on one thread and better-sqlite3 is synchronous, so each     *)
(* handler is one atomic action.                                           *)
(***************************************************************************)
EXTENDS Integers, Sequences, FiniteSets, TLC

(* ---------------------------- bounds ----------------------------------- *)
\* HTTP requests handled in one behaviour of SpecLedger
MaxCmds == 3
\* HTTP requests handled in one behaviour of Spec
MaxLiveCmds == 2
\* HTTP requests handled in one behaviour of SpecFaults
MaxFaultCmds == 3
\* HTTP requests handled, and WebSocket connections opened, in one behaviour
\* of SpecSend
MaxSendCmds == 2
MaxSendViewers == 2
\* HTTP requests handled in one behaviour of SpecReport
MaxReportCmds == 3
\* WebSocket connections opened in one behaviour of Spec
MaxViewers == 1

(* ------------------------- JavaScript values --------------------------- *)
\* A JSON / JavaScript value is a record tagged with its typeof-class.  A key
\* absent from an object reads as undefined.
Undef == [t |-> "undefined"]
Null == [t |-> "null"]
Str(s) == [t |-> "string", s |-> s]
Num(n) == [t |-> "number", n |-> n]
NaN == [t |-> "number", nan |-> TRUE]
Bool(b) == [t |-> "boolean", b |-> b]
\* the string crypto.randomUUID() returned on its n-th call (0: a string
\* chosen by a client that is no generated UUID)
Uuid(n) == [t |-> "string", uuid |-> n]
\* the string new Date(n).toISOString(); text order of these strings is the
\* order of n
Iso(n) == [t |-> "string", iso |-> n]

\* the string YYYY-MM-DD of day n since 1970-01-01
Day(n) == [t |-> "string", day |-> n]

typeof(v) ==
    IF v.t = "null" THEN "object" ELSE v.t

\* ToBoolean, as used by `!x` and `if (x)`
Truthy(v) ==
    CASE v.t = "undefined" -> FALSE
      [] v.t = "null" -> FALSE
      [] v.t = "boolean" -> v.b
      [] v.t = "number" -> IF "nan" \in DOMAIN v THEN FALSE ELSE v.n # 0
      [] v.t = "string" -> IF "s" \in DOMAIN v THEN v.s # "" ELSE TRUE

\* StringToNumber on the string literals the model's requests use; every
\* other string is not numeric
NumericStrings ==
    [s \in {"", "0", "3", "100", "101", "-1"} |->
        CASE s = "" -> 0
          [] s = "0" -> 0
          [] s = "3" -> 3
          [] s = "100" -> 100
          [] s = "101" -> 101
          [] s = "-1" -> 0 - 1]

\* Number(v)
ToNumber(v) ==
    CASE v.t = "undefined" -> NaN
      [] v.t = "null" -> Num(0)
      [] v.t = "boolean" -> IF v.b THEN Num(1) ELSE Num(0)
      [] v.t = "number" -> v
      [] v.t = "string" ->
            IF "s" \in DOMAIN v /\ v.s \in DOMAIN NumericStrings
            THEN Num(NumericStrings[v.s])
            ELSE NaN

\* Number.isInteger(v): the model's numbers are integers or NaN
IsInteger(v) ==
    v.t = "number" /\ "n" \in DOMAIN v

(* ------------------------------ constants ------------------------------ *)
VALID_LOCATIONS == {"Upper loop", "Lower loop 1", "Lower loop 2"}
VALID_POWER == {"Steam", "Diesel", "Electric"}
VALID_POWER_TYPES == {"AC", "DC", "Digital"}
VALID_TYPES == {"Passenger", "Freight", "Special", "Mixed"}

\* a test of the type in the place of Set.prototype.has
Has_AnyString(set, v) ==
    v.t = "string"

\* Set.prototype.has on a set of strings
Has(set, v) ==
    v.t = "string" /\ "s" \in DOMAIN v /\ v.s \in set

\* the descriptive columns shared by trains and train_runs
FIELDS ==
    {"name", "railway", "country", "power", "trainType", "numberOfCars",
     "powerType", "years", "notes", "owner", "location"}

\* the keys a request body may carry
KEYS == FIELDS \cup {"id", "updated_at", "active"}

\* { ...a, ...b }: the keys b carries win
Spread(a, b) ==
    [k \in DOMAIN a \cup DOMAIN b |->
        IF k \in DOMAIN b /\ (k \notin DOMAIN a \/ b[k] # Undef) THEN b[k] ELSE a[k]]

\* obj.key, undefined when the key is absent
Get(obj, k) ==
    IF k \in DOMAIN obj THEN obj[k] ELSE Undef

(* ------------------------------ validation ----------------------------- *)
NoError == ""

\* the destructuring default `notes = ""`: applies to undefined only
Default(v, d) ==
    IF v = Undef THEN d ELSE v

\* validateTrain with the powerType test moved before the numberOfCars test
validateTrain_PowerTypeFirst(body) ==
    LET name == Get(body, "name")
        railway == Get(body, "railway")
        country == Get(body, "country")
        power == Get(body, "power")
        trainType == Get(body, "trainType")
        numberOfCars == Get(body, "numberOfCars")
        powerType == Get(body, "powerType")
        years == Get(body, "years")
        notes == Default(Get(body, "notes"), Str(""))
        owner == Default(Get(body, "owner"), Str(""))
        location == Get(body, "location")
    IN  IF ~Truthy(name) \/ typeof(name) # "string" THEN "name required"
        ELSE IF ~Truthy(railway) \/ typeof(railway) # "string" THEN "railway required"
        ELSE IF ~Truthy(country) \/ typeof(country) # "string"
            THEN "country required (emoji flag)"
        ELSE IF ~Truthy(power) \/ ~Has(VALID_POWER, power)
            THEN "power must be one of: Steam, Diesel, Electric"
        ELSE IF ~Truthy(trainType) \/ ~Has(VALID_TYPES, trainType)
            THEN "trainType must be one of: Passenger, Freight, Special, Mixed"
        ELSE IF ~Truthy(powerType) \/ ~Has(VALID_POWER_TYPES, powerType)
            THEN "powerType must be one of: AC, DC, Digital"
        ELSE IF ~IsInteger(numberOfCars) \/ numberOfCars.n < 0 \/ numberOfCars.n > 100
            THEN "numberOfCars must be an integer between 0 and 100"
        ELSE IF ~Truthy(years) \/ typeof(years) # "string"
            THEN "years required (e.g. 1950 or 1950-1960)"
        ELSE IF ~Truthy(location) \/ ~Has(VALID_LOCATIONS, location)
            THEN "location must be one of: Upper loop, Lower loop 1, Lower loop 2"
        ELSE IF typeof(notes) # "string" THEN "notes must be a string"
        ELSE IF typeof(owner) # "string" THEN "owner must be a string"
        ELSE NoError

validateTrain(body) ==
    LET name == Get(body, "name")
        railway == Get(body, "railway")
        country == Get(body, "country")
        power == Get(body, "power")
        trainType == Get(body, "trainType")
        numberOfCars == Get(body, "numberOfCars")
        powerType == Get(body, "powerType")
        years == Get(body, "years")
        notes == Default(Get(body, "notes"), Str(""))
        owner == Default(Get(body, "owner"), Str(""))
        location == Get(body, "location")
    IN  IF ~Truthy(name) \/ typeof(name) # "string" THEN "name required"
        ELSE IF ~Truthy(railway) \/ typeof(railway) # "string" THEN "railway required"
        ELSE IF ~Truthy(country) \/ typeof(country) # "string"
            THEN "country required (emoji flag)"
        ELSE IF ~Truthy(power) \/ ~Has(VALID_POWER, power)
            THEN "power must be one of: Steam, Diesel, Electric"
        ELSE IF ~Truthy(trainType) \/ ~Has(VALID_TYPES, trainType)
            THEN "trainType must be one of: Passenger, Freight, Special, Mixed"
        ELSE IF ~IsInteger(numberOfCars) \/ numberOfCars.n < 0 \/ numberOfCars.n > 100
            THEN "numberOfCars must be an integer between 0 and 100"
        ELSE IF ~Truthy(powerType) \/ ~Has(VALID_POWER_TYPES, powerType)
            THEN "powerType must be one of: AC, DC, Digital"
        ELSE IF ~Truthy(years) \/ typeof(years) # "string"
            THEN "years required (e.g. 1950 or 1950-1960)"
        ELSE IF ~Truthy(location) \/ ~Has(VALID_LOCATIONS, location)
            THEN "location must be one of: Upper loop, Lower loop 1, Lower loop 2"
        ELSE IF typeof(notes) # "string" THEN "notes must be a string"
        ELSE IF typeof(owner) # "string" THEN "owner must be a string"
        ELSE NoError

(* ------------------------------ the store ------------------------------ *)
\* A table is the sequence of its rows in rowid (insertion) order; a row maps
\* column names to values.
TrainColumns == FIELDS \cup {"id", "active", "updated_at"}
RunColumns == FIELDS \cup {"id", "train_id", "start_time", "stop_time"}
\* the columns stmtListRunning selects: neither owner nor active
RosterColumns == (FIELDS \ {"owner"}) \cup {"id", "updated_at"}

\* BINARY collation on the location strings: "Lower loop 1" < "Lower loop 2"
\* < "Upper loop"
LocationOrder == <<"Lower loop 1", "Lower loop 2", "Upper loop">>

LocRank(v) ==
    IF \E i \in DOMAIN LocationOrder : v = Str(LocationOrder[i])
    THEN CHOOSE i \in DOMAIN LocationOrder : v = Str(LocationOrder[i])
    ELSE 0

\* ORDER BY location ASC, updated_at DESC: a sorts strictly before b
RosterBefore(a, b) ==
    \/ LocRank(a.location) < LocRank(b.location)
    \/ /\ LocRank(a.location) = LocRank(b.location)
       /\ a.updated_at.iso > b.updated_at.iso

\* r placed into the sorted sequence s, after the rows it does not precede
InsertSorted(r, s) ==
    LET later == {i \in DOMAIN s : RosterBefore(r, s[i])}
        at == IF later = {} THEN Len(s) + 1
              ELSE CHOOSE i \in later : \A j \in later : i <= j
    IN  SubSeq(s, 1, at - 1) \o <<r>> \o SubSeq(s, at, Len(s))

RECURSIVE OrderBy(_)
OrderBy(s) ==
    IF s = <<>> THEN <<>>
    ELSE InsertSorted(s[Len(s)], OrderBy(SubSeq(s, 1, Len(s) - 1)))

Project(row, cols) ==
    [k \in cols |-> row[k]]

\* the WHERE clause left out: every row passes
IsActive_NoWhere(row) ==
    TRUE

IsActive(row) ==
    row.active = Num(1)

stmtListRunning(T) ==
    LET rows == OrderBy(SelectSeq(T, IsActive))
    IN  [i \in DOMAIN rows |-> Project(rows[i], RosterColumns)]

\* the rowids of T whose id column is id
RowsWithId(T, id) ==
    {i \in DOMAIN T : T[i].id = id}

stmtGetById(T, id) ==
    IF RowsWithId(T, id) = {} THEN Undef
    ELSE T[CHOOSE i \in RowsWithId(T, id) : \A j \in RowsWithId(T, id) : i <= j]

\* INSERT INTO trains ... VALUES (..., 1, @updated_at): active is the literal 1
stmtInsert(T, row) ==
    Append(T, [k \in TrainColumns |-> IF k = "active" THEN Num(1) ELSE row[k]])

stmtInsertRun(R, row) ==
    Append(R, [k \in RunColumns |-> row[k]])

\* stmtUpdate with active=@active added to its SET list
stmtUpdate_SetsActive(T, merged) ==
    [i \in DOMAIN T |->
        IF T[i].id = merged.id
        THEN [k \in TrainColumns |->
                IF k \in FIELDS \cup {"updated_at", "active"} THEN merged[k] ELSE T[i][k]]
        ELSE T[i]]

stmtUpdate(T, merged) ==
    [i \in DOMAIN T |->
        IF T[i].id = merged.id
        THEN [k \in TrainColumns |->
                IF k \in FIELDS \cup {"updated_at"} THEN merged[k] ELSE T[i][k]]
        ELSE T[i]]

stmtDeactivate(T, id, updated_at) ==
    [i \in DOMAIN T |->
        IF T[i].id = id
        THEN [T[i] EXCEPT !.active = Num(0), !.updated_at = updated_at]
        ELSE T[i]]

\* ORDER BY start_time DESC LIMIT 1 over the rowids in `cands`; rows with equal
\* start_time come out in rowid order
LatestOf(R, cands) ==
    IF cands = {} THEN Undef
    ELSE LET top == {i \in cands : \A j \in cands : R[i].start_time.iso >= R[j].start_time.iso}
             i == CHOOSE i \in top : \A j \in top : i <= j
         IN  [id |-> R[i].id]

\* stmtFindOpenRun without `train_id = ?`
stmtFindOpenRun_AnyTrain(R, train_id) ==
    LatestOf(R, {i \in DOMAIN R : R[i].stop_time = Null})

stmtFindOpenRun(R, train_id) ==
    LatestOf(R, {i \in DOMAIN R : R[i].train_id = train_id /\ R[i].stop_time = Null})

\* stmtFindLatestRun with stmtFindOpenRun's `stop_time IS NULL` left in
stmtFindLatestRun_OpenOnly(R, train_id) ==
    LatestOf(R, {i \in DOMAIN R : R[i].train_id = train_id /\ R[i].stop_time = Null})

stmtFindLatestRun(R, train_id) ==
    LatestOf(R, {i \in DOMAIN R : R[i].train_id = train_id})

stmtUpdateRunStop(R, id, stop_time) ==
    [i \in DOMAIN R |->
        IF R[i].id = id THEN [R[i] EXCEPT !.stop_time = stop_time] ELSE R[i]]

\* milliseconds in a minute and in a day
MsPerMinute == 60000
MsPerDay == 86400000

\* SQLite's date() of a start_time: the UTC calendar day of the instant
DateOf(v) ==
    Day(v.iso \div MsPerDay)

\* the filter put on stop_time
StartedOn_StopTime(R, date) ==
    SelectSeq(R, LAMBDA row : row.stop_time # Null /\ DateOf(row.stop_time) = date)

\* WHERE date(start_time) = @date
StartedOn(R, date) ==
    SelectSeq(R, LAMBDA row : DateOf(row.start_time) = date)

\* r placed into s, sorted by start_time, after the rows that start no later
InsertByStart(r, s) ==
    LET later == {i \in DOMAIN s : r.start_time.iso < s[i].start_time.iso}
        at == IF later = {} THEN Len(s) + 1
              ELSE CHOOSE i \in later : \A j \in later : i <= j
    IN  SubSeq(s, 1, at - 1) \o <<r>> \o SubSeq(s, at, Len(s))

\* ORDER BY start_time ASC
RECURSIVE OrderByStart(_)
OrderByStart(s) ==
    IF s = <<>> THEN <<>>
    ELSE InsertByStart(s[Len(s)], OrderByStart(SubSeq(s, 1, Len(s) - 1)))

stmtRunsByDate(R, date) ==
    LET rows == OrderByStart(StartedOn(R, date))
    IN  [i \in DOMAIN rows |-> Project(rows[i], RunColumns \ {"id"})]

(* ------------------------------- reports ------------------------------- *)
Max(a, b) ==
    IF a >= b THEN a ELSE b

\* Math.floor in the place of Math.round
Round_Down(ms) ==
    ms \div MsPerMinute

\* Math.round(ms / MsPerMinute): the nearest integer, a half going up
Round(ms) ==
    (2 * ms + MsPerMinute) \div (2 * MsPerMinute)

\* /^\d{4}-\d{2}-\d{2}$/.test(date)
IsDate(v) ==
    v.t = "string" /\ "day" \in DOMAIN v

\* the duration object of run r in a report made at instant now
Duration(r, now) ==
    LET start == r.start_time.iso
        end == IF Truthy(r.stop_time) THEN r.stop_time.iso ELSE now
        durationMinutes == Max(0, Round(end - start))
        hours == durationMinutes \div 60
        minutes == durationMinutes % 60
    IN  [minutes |-> durationMinutes, hours |-> hours, remainderMinutes |-> minutes]

\* rows.map((r) => ({ ...r, duration }))
Report(rows, now) ==
    [i \in DOMAIN rows |->
        [k \in DOMAIN rows[i] \cup {"duration"} |->
            IF k = "duration" THEN Duration(rows[i], now) ELSE rows[i][k]]]

(* ------------------------------- state -------------------------------- *)
VARIABLES
    trains,      \* table trains
    runs,        \* table train_runs
    clock,       \* the last instant new Date() returned
    uuids,       \* how many times crypto.randomUUID() has been called
    readyState,  \* per WebSocket: 0 CONNECTING, 1 OPEN, 2 CLOSING, 3 CLOSED
    clients,     \* wss.clients
    inbox,       \* per WebSocket: the messages handed to its send(), in order
    res,         \* the last HTTP exchange: request, response, what the handler did
    lost         \* the WebSockets whose TCP connection has failed

vars == <<trains, runs, clock, uuids, readyState, clients, inbox, res, lost>>

Viewers == 1 .. MaxViewers

\* the sockets of SpecSend
SendViewers == 1 .. MaxSendViewers

\* the instants new Date() may return next: the clock has millisecond
\* resolution, so two reads may return the same instant
Instants == {clock, clock + 1}

(* ------------------------------ broadcast ------------------------------ *)
\* JSON.stringify({ event, payload }), as the viewer parses it back
Message(event, payload) ==
    [event |-> event, payload |-> payload]

\* broadcast without the readyState test
broadcast_AnyReadyState(event, payload) ==
    [v \in DOMAIN inbox |->
        IF v \in clients
        THEN Append(inbox[v], Message(event, payload))
        ELSE inbox[v]]

\* client.send raising on a socket whose connection has failed: the loop, and
\* the handler, end at the first such socket
broadcast_SendThrows(event, payload) ==
    [v \in DOMAIN inbox |->
        IF /\ v \in clients /\ readyState[v] = 1
           /\ \A u \in clients : (u <= v /\ readyState[u] = 1) => u \notin lost
        THEN Append(inbox[v], Message(event, payload))
        ELSE inbox[v]]

\* the sockets' message logs after broadcast(event, payload)
broadcast(event, payload) ==
    [v \in DOMAIN inbox |->
        IF v \in clients /\ readyState[v] = 1
        THEN Append(inbox[v], Message(event, payload))
        ELSE inbox[v]]

\* the roster broadcast a second time
Publish_Twice(T) ==
    [v \in DOMAIN inbox |->
        IF v \in clients /\ readyState[v] = 1
        THEN inbox[v] \o << Message("running:update", stmtListRunning(T)),
                            Message("running:update", stmtListRunning(T)) >>
        ELSE inbox[v]]

\* const payload = stmtListRunning.all(); broadcast("running:update", payload);
\* with T the table trains as the handler has just written it
Publish(T) ==
    broadcast("running:update", stmtListRunning(T))

(* ------------------------------ requests ------------------------------- *)
NoBody == [k \in KEYS |-> Undef]

BodyA ==
    [NoBody EXCEPT !.name = Str("BR 01"), !.railway = Str("DB"), !.country = Str("DE"),
                   !.power = Str("Steam"), !.trainType = Str("Passenger"),
                   !.numberOfCars = Num(3), !.powerType = Str("AC"),
                   !.years = Str("1950"), !.location = Str("Upper loop")]

BodyB ==
    [BodyA EXCEPT !.name = Str("V 200"), !.power = Str("Diesel"),
                  !.numberOfCars = Str("100"), !.notes = Str("pilot"),
                  !.owner = Str("club"), !.location = Str("Lower loop 1")]

\* ids a client can put into a body or a path: one string of its own making
\* (Uuid(0)), and the ids the store holds
KnownIds ==
    {Uuid(0)} \cup {trains[i].id : i \in DOMAIN trains}
              \cup {runs[i].train_id : i \in DOMAIN runs}

\* bodies validateTrain rejects
InvalidBodies ==
    {[BodyA EXCEPT !.name = Undef],
     [BodyA EXCEPT !.numberOfCars = Str("101"), !.powerType = Str("Analog")],
     [BodyA EXCEPT !.location = Str("Siding")],
     [BodyA EXCEPT !.notes = Null]}

PostBodies ==
    {BodyA, BodyB, [BodyA EXCEPT !.updated_at = Iso(0), !.active = Num(0)]}
    \cup InvalidBodies
    \cup {[BodyB EXCEPT !.id = i] : i \in KnownIds}

PatchBodies ==
    {[NoBody EXCEPT !.location = Str("Lower loop 2")],
     [NoBody EXCEPT !.numberOfCars = Null, !.notes = Str("shunting")],
     [NoBody EXCEPT !.id = Uuid(0), !.active = Num(1), !.updated_at = Iso(0)],
     [NoBody EXCEPT !.name = Str("")],
     [NoBody EXCEPT !.location = Str("Siding")],
     [NoBody EXCEPT !.numberOfCars = Str("101")]}

PathIds == KnownIds \cup {Str("nope")}

\* the requests of Spec: two valid bodies and the invalid ones; a move and an
\* empty name; the ids of the trains and one no train has
LivePostBodies ==
    {BodyA, BodyB} \cup InvalidBodies

LivePatchBodies ==
    {[NoBody EXCEPT !.location = Str("Lower loop 2")],
     [NoBody EXCEPT !.name = Str("")]}

LiveIds ==
    {trains[i].id : i \in DOMAIN trains} \cup {Str("nope")}

\* res before the first request
NoExchange ==
    [n |-> 0, op |-> "", status |-> 0, json |-> [ok |-> FALSE], req |-> NoBody,
     id |-> Undef, date |-> Undef, now |-> 0, tier |-> 0, did |-> <<>>, pubs |-> <<>>]

Init ==
    /\ trains = <<>>
    /\ runs = <<>>
    /\ clock = 1
    /\ uuids = 0
    /\ readyState = [v \in Viewers |-> 0]
    /\ clients = {}
    /\ inbox = [v \in Viewers |-> <<>>]
    /\ res = NoExchange
    /\ lost = {}

\* the same, with the sockets of SpecSend
InitSend ==
    /\ trains = <<>>
    /\ runs = <<>>
    /\ clock = 1
    /\ uuids = 0
    /\ readyState = [v \in SendViewers |-> 0]
    /\ clients = {}
    /\ inbox = [v \in SendViewers |-> <<>>]
    /\ res = NoExchange
    /\ lost = {}

(* ------------------------------ handlers ------------------------------- *)
\* app.get("/api/running")
GetRunning ==
    /\ res' = [NoExchange EXCEPT !.n = res.n + 1, !.op = "GET", !.status = 200,
                                 !.did = <<"stmtListRunning">>,
                                 !.json = [trains |-> stmtListRunning(trains)]]
    /\ UNCHANGED <<trains, runs, clock, uuids, readyState, clients, inbox, lost>>

\* const normalized = { ...req.body, numberOfCars: Number(...), powerType: ... }
Normalized(body) ==
    [body EXCEPT !.numberOfCars = ToNumber(body.numberOfCars)]

\* const row = { id, updated_at, ...normalized, notes: ?? "", owner: ?? "" }
PostRow(id, updated_at, normalized) ==
    LET spread == Spread([id |-> id, updated_at |-> updated_at], normalized)
    IN  [spread EXCEPT
            !.notes = IF normalized.notes \in {Undef, Null} THEN Str("") ELSE normalized.notes,
            !.owner = IF normalized.owner \in {Undef, Null} THEN Str("") ELSE normalized.owner]

\* the row stmtInsertRun gets in app.post
PostRun(run_id, id, updated_at, row) ==
    [k \in RunColumns |->
        CASE k = "id" -> run_id
          [] k = "train_id" -> id
          [] k = "start_time" -> updated_at
          [] k = "stop_time" -> Null
          [] OTHER -> row[k]]

\* app.post("/api/running")
PostRunning(body, now) ==
    LET normalized == Normalized(body)
        err == validateTrain(normalized)
        id == Uuid(uuids + 1)
        updated_at == Iso(now)
        row == PostRow(id, updated_at, normalized)
        exchange == [NoExchange EXCEPT !.n = res.n + 1, !.op = "POST", !.req = body]
    IN  IF err # NoError
           THEN /\ res' = [exchange EXCEPT !.status = 400, !.json = [error |-> err]]
                /\ UNCHANGED <<trains, runs, clock, uuids, readyState, clients, inbox, lost>>
           ELSE IF RowsWithId(trains, row.id) # {}
           THEN \* stmtInsert.run throws on the PRIMARY KEY: Express answers 500
                /\ clock' = now
                /\ uuids' = uuids + 1
                /\ res' = [exchange EXCEPT !.status = 500, !.id = id, !.now = now,
                                           !.did = <<"stmtInsert">>,
                                           !.json = [error |-> "SqliteError"]]
                /\ UNCHANGED <<trains, runs, readyState, clients, inbox, lost>>
           ELSE /\ clock' = now
                /\ uuids' = uuids + 2
                /\ trains' = stmtInsert(trains, row)
                /\ runs' = stmtInsertRun(runs, PostRun(Uuid(uuids + 2), id, updated_at, row))
                /\ inbox' = Publish(trains')
                /\ res' = [exchange EXCEPT !.status = 201, !.id = id, !.now = now,
                                           !.json = [id |-> id],
                                           !.did = <<"stmtInsert", "stmtInsertRun",
                                                     "stmtListRunning", "broadcast">>,
                                           !.pubs = <<stmtListRunning(trains')>>]
                /\ UNCHANGED <<readyState, clients, lost>>

\* const merged = { ...existing, ...req.body, id }, numberOfCars normalized
Merged(existing, body, id) ==
    LET m == [Spread(existing, body) EXCEPT !.id = id]
    IN  IF body.numberOfCars # Undef
        THEN [m EXCEPT !.numberOfCars = ToNumber(body.numberOfCars)]
        ELSE m

\* app.patch with validateTrain called after stmtUpdate.run
PatchRunning_WritesBeforeValidating(id, body, now) ==
    LET existing == stmtGetById(trains, id)
        merged == Merged(existing, body, id)
        err == validateTrain(merged)
        exchange == [NoExchange EXCEPT !.n = res.n + 1, !.op = "PATCH", !.req = body,
                                       !.id = id, !.did = <<"stmtGetById">>]
    IN  IF existing = Undef
           THEN /\ res' = [exchange EXCEPT !.status = 404, !.json = [error |-> "not found"]]
                /\ UNCHANGED <<trains, runs, clock, uuids, readyState, clients, inbox, lost>>
           ELSE /\ clock' = now
                /\ trains' = stmtUpdate(trains, [merged EXCEPT !.updated_at = Iso(now)])
                /\ IF err # NoError
                   THEN /\ res' = [exchange EXCEPT !.status = 400, !.json = [error |-> err]]
                        /\ UNCHANGED inbox
                   ELSE /\ inbox' = Publish(trains')
                        /\ res' = [exchange EXCEPT !.status = 200, !.now = now,
                                                   !.json = [ok |-> TRUE],
                                                   !.pubs = <<stmtListRunning(trains')>>]
                /\ UNCHANGED <<runs, uuids, readyState, clients, lost>>

\* app.patch that also copies the merged fields into the train's open run
PatchRunning_UpdatesOpenRun(id, body, now) ==
    LET existing == stmtGetById(trains, id)
        merged == Merged(existing, body, id)
        err == validateTrain(merged)
        exchange == [NoExchange EXCEPT !.n = res.n + 1, !.op = "PATCH", !.req = body,
                                       !.id = id]
    IN  IF existing = Undef
           THEN /\ res' = [exchange EXCEPT !.status = 404, !.json = [error |-> "not found"],
                                           !.did = <<"stmtGetById">>]
                /\ UNCHANGED <<trains, runs, clock, uuids, readyState, clients, inbox, lost>>
           ELSE IF err # NoError
           THEN /\ res' = [exchange EXCEPT !.status = 400, !.json = [error |-> err],
                                           !.did = <<"stmtGetById">>]
                /\ UNCHANGED <<trains, runs, clock, uuids, readyState, clients, inbox, lost>>
           ELSE /\ clock' = now
                /\ trains' = stmtUpdate(trains, [merged EXCEPT !.updated_at = Iso(now)])
                /\ inbox' = Publish(trains')
                /\ res' = [exchange EXCEPT !.status = 200, !.now = now,
                                           !.json = [ok |-> TRUE],
                                           !.did = <<"stmtGetById", "stmtUpdate",
                                                     "stmtListRunning", "broadcast">>,
                                           !.pubs = <<stmtListRunning(trains')>>]
                /\ runs' = [i \in DOMAIN runs |->
                              IF runs[i].train_id = id /\ runs[i].stop_time = Null
                              THEN [k \in RunColumns |->
                                      IF k \in FIELDS THEN merged[k] ELSE runs[i][k]]
                              ELSE runs[i]]
                /\ UNCHANGED <<uuids, readyState, clients, lost>>

\* app.patch that also opens a run, as app.post does
PatchRunning_OpensRun(id, body, now) ==
    LET existing == stmtGetById(trains, id)
        merged == Merged(existing, body, id)
        err == validateTrain(merged)
        exchange == [NoExchange EXCEPT !.n = res.n + 1, !.op = "PATCH", !.req = body,
                                       !.id = id]
    IN  IF existing = Undef
           THEN /\ res' = [exchange EXCEPT !.status = 404, !.json = [error |-> "not found"],
                                           !.did = <<"stmtGetById">>]
                /\ UNCHANGED <<trains, runs, clock, uuids, readyState, clients, inbox, lost>>
           ELSE IF err # NoError
           THEN /\ res' = [exchange EXCEPT !.status = 400, !.json = [error |-> err],
                                           !.did = <<"stmtGetById">>]
                /\ UNCHANGED <<trains, runs, clock, uuids, readyState, clients, inbox, lost>>
           ELSE /\ clock' = now
                /\ trains' = stmtUpdate(trains, [merged EXCEPT !.updated_at = Iso(now)])
                /\ inbox' = Publish(trains')
                /\ res' = [exchange EXCEPT !.status = 200, !.now = now,
                                           !.json = [ok |-> TRUE],
                                           !.did = <<"stmtGetById", "stmtUpdate",
                                                     "stmtListRunning", "broadcast">>,
                                           !.pubs = <<stmtListRunning(trains')>>]
                /\ runs' = stmtInsertRun(runs, PostRun(Uuid(uuids + 1), id, Iso(now), merged))
                /\ uuids' = uuids + 1
                /\ UNCHANGED <<readyState, clients, lost>>

\* app.patch("/api/running/:id")
PatchRunning(id, body, now) ==
    LET existing == stmtGetById(trains, id)
        merged == Merged(existing, body, id)
        err == validateTrain(merged)
        exchange == [NoExchange EXCEPT !.n = res.n + 1, !.op = "PATCH", !.req = body,
                                       !.id = id]
    IN  IF existing = Undef
           THEN /\ res' = [exchange EXCEPT !.status = 404, !.json = [error |-> "not found"],
                                           !.did = <<"stmtGetById">>]
                /\ UNCHANGED <<trains, runs, clock, uuids, readyState, clients, inbox, lost>>
           ELSE IF err # NoError
           THEN /\ res' = [exchange EXCEPT !.status = 400, !.json = [error |-> err],
                                           !.did = <<"stmtGetById">>]
                /\ UNCHANGED <<trains, runs, clock, uuids, readyState, clients, inbox, lost>>
           ELSE /\ clock' = now
                /\ trains' = stmtUpdate(trains, [merged EXCEPT !.updated_at = Iso(now)])
                /\ inbox' = Publish(trains')
                /\ res' = [exchange EXCEPT !.status = 200, !.now = now,
                                           !.json = [ok |-> TRUE],
                                           !.did = <<"stmtGetById", "stmtUpdate",
                                                     "stmtListRunning", "broadcast">>,
                                           !.pubs = <<stmtListRunning(trains')>>]
                /\ UNCHANGED <<runs, uuids, readyState, clients, lost>>

\* SynthRun with start_time taken from the train's updated_at
SynthRun_StartsAtUpdatedAt(run_id, id, existing, stop_time) ==
    [k \in RunColumns |->
        CASE k = "id" -> run_id
          [] k = "train_id" -> id
          [] k = "start_time" -> existing.updated_at
          [] k = "stop_time" -> stop_time
          [] OTHER -> existing[k]]

\* the row stmtInsertRun gets in app.delete: a run of zero duration
SynthRun(run_id, id, existing, stop_time) ==
    [k \in RunColumns |->
        CASE k = "id" -> run_id
          [] k = "train_id" -> id
          [] k = "start_time" -> stop_time
          [] k = "stop_time" -> stop_time
          [] OTHER -> existing[k]]

\* which branch of app.delete writes the ledger: 1 the open run, 2 the latest
\* run, 3 a synthesized run
StopTier(R, id) ==
    IF stmtFindOpenRun(R, id) # Undef THEN 1
    ELSE IF Truthy(Get(stmtFindLatestRun(R, id), "id")) THEN 2
    ELSE 3

\* StopRuns without its last branch: a stop that finds no run writes nothing
StopRuns_NoSynth(R, id, existing, stop_time, run_id) ==
    LET openRun == stmtFindOpenRun(R, id)
        latest == stmtFindLatestRun(R, id)
        fallbackId == Get(latest, "id")
    IN  IF openRun # Undef THEN stmtUpdateRunStop(R, openRun.id, stop_time)
        ELSE IF Truthy(fallbackId) THEN stmtUpdateRunStop(R, fallbackId, stop_time)
        ELSE R

\* train_runs after the ledger write of app.delete
StopRuns(R, id, existing, stop_time, run_id) ==
    LET openRun == stmtFindOpenRun(R, id)
        latest == stmtFindLatestRun(R, id)
        fallbackId == Get(latest, "id")
    IN  IF openRun # Undef THEN stmtUpdateRunStop(R, openRun.id, stop_time)
        ELSE IF Truthy(fallbackId) THEN stmtUpdateRunStop(R, fallbackId, stop_time)
        ELSE stmtInsertRun(R, SynthRun(run_id, id, existing, stop_time))

\* the statements app.delete runs, in the order it runs them
StopStatements(tier) ==
    <<"stmtGetById", "stmtDeactivate", "stmtFindOpenRun">>
    \o (CASE tier = 1 -> <<"stmtUpdateRunStop">>
          [] tier = 2 -> <<"stmtFindLatestRun", "stmtUpdateRunStop">>
          [] tier = 3 -> <<"stmtFindLatestRun", "stmtInsertRun">>)
    \o <<"stmtListRunning", "broadcast">>

\* app.delete("/api/running/:id")
DeleteRunning(id, now) ==
    LET existing == stmtGetById(trains, id)
        stop_time == Iso(now)
        tier == StopTier(runs, id)
        exchange == [NoExchange EXCEPT !.n = res.n + 1, !.op = "DELETE", !.id = id]
    IN  IF existing = Undef
           THEN /\ res' = [exchange EXCEPT !.status = 404, !.json = [error |-> "not found"],
                                           !.did = <<"stmtGetById">>]
                /\ UNCHANGED <<trains, runs, clock, uuids, readyState, clients, inbox, lost>>
           ELSE /\ clock' = now
                /\ trains' = stmtDeactivate(trains, id, stop_time)
                /\ runs' = StopRuns(runs, id, existing, stop_time, Uuid(uuids + 1))
                /\ uuids' = IF tier = 3 THEN uuids + 1 ELSE uuids
                /\ inbox' = Publish(trains')
                /\ res' = [exchange EXCEPT !.status = 200, !.now = now, !.tier = tier,
                                           !.json = [ok |-> TRUE],
                                           !.did = StopStatements(tier),
                                           !.pubs = <<stmtListRunning(trains')>>]
                /\ UNCHANGED <<readyState, clients, lost>>

\* app.get("/api/reports/runs"); new Date() is read once per open run
GetReport(date, now) ==
    LET rows == stmtRunsByDate(runs, date)
        exchange == [NoExchange EXCEPT !.n = res.n + 1, !.op = "REPORT", !.date = date]
    IN  IF ~Truthy(date) \/ ~IsDate(date)
           THEN /\ res' = [exchange EXCEPT
                              !.status = 400,
                              !.json = [error |-> "date query param (YYYY-MM-DD) is required"]]
                /\ UNCHANGED <<trains, runs, clock, uuids, readyState, clients, inbox, lost>>
           ELSE /\ clock' = IF \E i \in DOMAIN rows : ~Truthy(rows[i].stop_time)
                            THEN now ELSE clock
                /\ res' = [exchange EXCEPT !.status = 200, !.now = now,
                                           !.did = <<"stmtRunsByDate">>,
                                           !.json = [runs |-> Report(rows, now)]]
                /\ UNCHANGED <<trains, runs, uuids, readyState, clients, inbox, lost>>

(* --------------------------- a failing store --------------------------- *)
\* better-sqlite3 raises what SQLite reports (SQLITE_FULL, SQLITE_IOERR,
\* SQLITE_BUSY, ...) out of .run(); no handler catches and none opens a
\* transaction, so every statement that ran before stays committed and Express
\* answers 500.  These are the statements that write a table.
WriteStatements ==
    {"stmtInsert", "stmtInsertRun", "stmtUpdate", "stmtDeactivate", "stmtUpdateRunStop"}

\* app.post("/api/running") when .run() of statement stmt raises
PostRunningThrows(body, now, stmt) ==
    LET normalized == Normalized(body)
        id == Uuid(uuids + 1)
        updated_at == Iso(now)
        row == PostRow(id, updated_at, normalized)
        exchange == [NoExchange EXCEPT !.n = res.n + 1, !.op = "POST", !.req = body,
                                       !.status = 500, !.id = id, !.now = now,
                                       !.json = [error |-> "SqliteError"]]
    IN  /\ validateTrain(normalized) = NoError
        /\ RowsWithId(trains, row.id) = {}
        /\ stmt \in {"stmtInsert", "stmtInsertRun"}
        /\ clock' = now
        /\ IF stmt = "stmtInsert"
           THEN /\ uuids' = uuids + 1
                /\ res' = [exchange EXCEPT !.did = <<"stmtInsert">>]
                /\ UNCHANGED trains
           ELSE \* the run's id is drawn before stmtInsertRun.run is entered
                /\ uuids' = uuids + 2
                /\ trains' = stmtInsert(trains, row)
                /\ res' = [exchange EXCEPT !.did = <<"stmtInsert", "stmtInsertRun">>]
        /\ UNCHANGED <<runs, readyState, clients, inbox, lost>>

\* app.patch("/api/running/:id") when stmtUpdate.run raises
PatchRunningThrows(id, body, now) ==
    LET existing == stmtGetById(trains, id)
        merged == Merged(existing, body, id)
    IN  /\ existing # Undef
        /\ validateTrain(merged) = NoError
        /\ clock' = now
        /\ res' = [NoExchange EXCEPT !.n = res.n + 1, !.op = "PATCH", !.req = body,
                                     !.status = 500, !.id = id, !.now = now,
                                     !.json = [error |-> "SqliteError"],
                                     !.did = <<"stmtGetById", "stmtUpdate">>]
        /\ UNCHANGED <<trains, runs, uuids, readyState, clients, inbox, lost>>

\* app.delete("/api/running/:id") when .run() of statement stmt raises
DeleteRunningThrows(id, now, stmt) ==
    LET existing == stmtGetById(trains, id)
        stop_time == Iso(now)
        tier == StopTier(runs, id)
        exchange == [NoExchange EXCEPT !.n = res.n + 1, !.op = "DELETE", !.id = id,
                                       !.status = 500, !.now = now,
                                       !.json = [error |-> "SqliteError"]]
    IN  /\ existing # Undef
        /\ stmt \in {"stmtDeactivate", IF tier = 3 THEN "stmtInsertRun" ELSE "stmtUpdateRunStop"}
        /\ clock' = now
        /\ IF stmt = "stmtDeactivate"
           THEN /\ res' = [exchange EXCEPT !.did = <<"stmtGetById", "stmtDeactivate">>]
                /\ UNCHANGED <<trains, uuids>>
           ELSE /\ trains' = stmtDeactivate(trains, id, stop_time)
                /\ uuids' = IF tier = 3 THEN uuids + 1 ELSE uuids
                /\ res' = [exchange EXCEPT
                              !.tier = tier,
                              !.did = SubSeq(StopStatements(tier), 1,
                                             Len(StopStatements(tier)) - 2)]
        /\ UNCHANGED <<runs, readyState, clients, inbox, lost>>

(* ------------------------------ WebSockets ----------------------------- *)
\* a connection handler that sends nothing
Connection_NoInit(v) ==
    /\ readyState[v] = 0
    /\ readyState' = [readyState EXCEPT ![v] = 1]
    /\ clients' = clients \cup {v}
    /\ UNCHANGED <<trains, runs, clock, uuids, inbox, res, lost>>

\* wss.on("connection"): ws has put the open socket into wss.clients and calls
\* the handler in the same turn of the event loop
Connection(v) ==
    /\ readyState[v] = 0
    /\ readyState' = [readyState EXCEPT ![v] = 1]
    /\ clients' = clients \cup {v}
    /\ inbox' = [inbox EXCEPT
                    ![v] = Append(@, Message("running:init", stmtListRunning(trains)))]
    /\ UNCHANGED <<trains, runs, clock, uuids, res, lost>>

\* the closing handshake starts: the socket stays in wss.clients, not writable
SocketClosing(v) ==
    /\ readyState[v] = 1
    /\ readyState' = [readyState EXCEPT ![v] = 2]
    /\ UNCHANGED <<trains, runs, clock, uuids, clients, inbox, res, lost>>

\* the socket's "close" event: ws removes it from wss.clients
SocketClosed(v) ==
    /\ readyState[v] \in {1, 2}
    /\ readyState' = [readyState EXCEPT ![v] = 3]
    /\ clients' = clients \ {v}
    /\ lost' = lost \ {v}
    /\ UNCHANGED <<trains, runs, clock, uuids, inbox, res>>

\* the TCP connection of an open socket fails (the peer is gone, the network
\* drops).  ws has not seen it yet: readyState stays OPEN, and send() on the
\* socket still queues the frame and returns; the frame never arrives.
TransportFails(v) ==
    /\ readyState[v] = 1
    /\ v \notin lost
    /\ lost' = lost \cup {v}
    /\ UNCHANGED <<trains, runs, clock, uuids, readyState, clients, inbox, res>>

\* the failed write surfaces as the net.Socket's "error" event, in a later
\* turn of the event loop: ws's own listener sets the socket CLOSING and
\* destroys it; nothing is thrown into the code that called send()
SocketError(v) ==
    /\ v \in lost
    /\ readyState[v] = 1
    /\ readyState' = [readyState EXCEPT ![v] = 2]
    /\ UNCHANGED <<trains, runs, clock, uuids, clients, inbox, res, lost>>

\* The server: every route and every WebSocket event.  Requests are drawn from
\* LivePostBodies, LivePatchBodies and LiveIds.
Next ==
    \/ res.n < MaxLiveCmds /\ GetRunning
    \/ \E body \in LivePostBodies, now \in Instants :
          res.n < MaxLiveCmds /\ PostRunning(body, now)
    \/ \E id \in LiveIds, body \in LivePatchBodies, now \in Instants :
          res.n < MaxLiveCmds /\ PatchRunning(id, body, now)
    \/ \E id \in LiveIds, now \in Instants : res.n < MaxLiveCmds /\ DeleteRunning(id, now)
    \/ \E v \in Viewers : Connection(v)
    \/ \E v \in Viewers : SocketClosing(v)
    \/ \E v \in Viewers : SocketClosed(v)

Spec == Init /\ [][Next]_vars

\* The registry and the ledger alone: the routes, with no viewer connecting.
\* Requests are drawn from PostBodies, PatchBodies and PathIds.
NextLedger ==
    \/ res.n < MaxCmds /\ GetRunning
    \/ \E body \in PostBodies, now \in Instants : res.n < MaxCmds /\ PostRunning(body, now)
    \/ \E id \in PathIds, body \in PatchBodies, now \in Instants :
          res.n < MaxCmds /\ PatchRunning(id, body, now)
    \/ \E id \in PathIds, now \in Instants : res.n < MaxCmds /\ DeleteRunning(id, now)

SpecLedger == Init /\ [][NextLedger]_vars

\* The routes over a store whose writes may fail, with no viewer connecting.
NextFaults ==
    \/ \E body \in LivePostBodies, now \in Instants :
          res.n < MaxFaultCmds /\ PostRunning(body, now)
    \/ \E id \in LiveIds, body \in LivePatchBodies, now \in Instants :
          res.n < MaxFaultCmds /\ PatchRunning(id, body, now)
    \/ \E id \in LiveIds, now \in Instants : res.n < MaxFaultCmds /\ DeleteRunning(id, now)
    \/ \E body \in LivePostBodies, now \in Instants, stmt \in WriteStatements :
          res.n < MaxFaultCmds /\ PostRunningThrows(body, now, stmt)
    \/ \E id \in LiveIds, body \in LivePatchBodies, now \in Instants :
          res.n < MaxFaultCmds /\ PatchRunningThrows(id, body, now)
    \/ \E id \in LiveIds, now \in Instants, stmt \in WriteStatements :
          res.n < MaxFaultCmds /\ DeleteRunningThrows(id, now, stmt)

SpecFaults == Init /\ [][NextFaults]_vars

\* The same routes over the same store, with viewers connecting and closing.
NextLiveFaults ==
    \/ NextFaults
    \/ \E v \in Viewers : Connection(v)
    \/ \E v \in Viewers : SocketClosing(v)
    \/ \E v \in Viewers : SocketClosed(v)

SpecLiveFaults == Init /\ [][NextLiveFaults]_vars

\* the requests of SpecSend: a valid and an invalid start; a move; a stop
SendPostBodies ==
    {BodyA, [BodyA EXCEPT !.name = Undef]}

SendPatchBodies ==
    {[NoBody EXCEPT !.location = Str("Lower loop 2")]}

\* The routes and the WebSocket events up to a connection's failure.  Sockets
\* are numbered in the order they connect, which is the order wss.clients
\* iterates in.
NextSend ==
    \/ \E body \in SendPostBodies, now \in Instants :
          res.n < MaxSendCmds /\ PostRunning(body, now)
    \/ \E id \in LiveIds, body \in SendPatchBodies, now \in Instants :
          res.n < MaxSendCmds /\ PatchRunning(id, body, now)
    \/ \E id \in LiveIds, now \in Instants : res.n < MaxSendCmds /\ DeleteRunning(id, now)
    \/ \E v \in SendViewers :
          (\A u \in SendViewers : u < v => readyState[u] # 0) /\ Connection(v)
    \/ \E v \in SendViewers : TransportFails(v)
    \/ \E v \in SendViewers : SocketError(v)

SpecSend == InitSend /\ [][NextSend]_vars

\* new Date() is the wall clock: between two reads it may run on by just
\* under or just half a minute, by 95 minutes or by a day, or be set back
ReportInstants ==
    {clock + d : d \in {29999, 30000, 95 * MsPerMinute, MsPerDay}}
    \cup {clock - d : d \in {90000} \cap 0 .. clock}

\* the date query parameter: absent, no date, the first days of 1970
ReportDates ==
    {Undef, Str("today"), Day(0), Day(1)}

\* Starts, stops and reports, spread over minutes and days.  Viewers connect
\* before the first request.
NextReport ==
    \/ \E now \in ReportInstants : res.n < MaxReportCmds /\ PostRunning(BodyA, now)
    \/ \E id \in LiveIds, now \in ReportInstants :
          res.n < MaxReportCmds /\ DeleteRunning(id, now)
    \/ \E date \in ReportDates, now \in ReportInstants :
          res.n < MaxReportCmds /\ GetReport(date, now)
    \/ \E v \in Viewers : res.n = 0 /\ Connection(v)

SpecReport == Init /\ [][NextReport]_vars

\* the values of each field that validateTrain is handed
ValidateValues ==
    [name |-> {Str("BR 01"), Str(""), Num(7)},
     railway |-> {Str("DB"), Undef},
     country |-> {Str("DE"), Null},
     power |-> {Str("Steam"), Str("Coal")},
     trainType |-> {Str("Mixed"), Undef},
     numberOfCars |-> {Num(3), Num(101), Num(0 - 1), NaN, Str("3")},
     powerType |-> {Str("Digital"), Str("Analog")},
     years |-> {Str("1950"), Str("")},
     location |-> {Str("Lower loop 2"), Str("Siding")},
     notes |-> {Undef, Str("pilot"), Null},
     owner |-> {Undef, Str("club"), Bool(TRUE)}]

ValidateBodies ==
    [name : ValidateValues.name, railway : ValidateValues.railway,
     country : ValidateValues.country, power : ValidateValues.power,
     trainType : ValidateValues.trainType, numberOfCars : ValidateValues.numberOfCars,
     powerType : ValidateValues.powerType, years : ValidateValues.years,
     location : ValidateValues.location, notes : ValidateValues.notes,
     owner : ValidateValues.owner]

\* a record waits to be validated
InitValidate ==
    /\ trains = <<>>
    /\ runs = <<>>
    /\ clock = 1
    /\ uuids = 0
    /\ readyState = [v \in Viewers |-> 0]
    /\ clients = {}
    /\ inbox = [v \in Viewers |-> <<>>]
    /\ lost = {}
    /\ \E body \in ValidateBodies : res = [NoExchange EXCEPT !.req = body]

\* const err = validateTrain(...)
Validate ==
    /\ res.op = ""
    /\ res' = [res EXCEPT !.op = "validateTrain",
                          !.json = [error |-> validateTrain(res.req)]]
    /\ UNCHANGED <<trains, runs, clock, uuids, readyState, clients, inbox, lost>>

NextValidate ==
    Validate

SpecValidate == InitValidate /\ [][NextValidate]_vars

(* ------------------------------- claims -------------------------------- *)
\* this step handles one HTTP request of method op
Handles(op) ==
    res'.n = res.n + 1 /\ res'.op = op

\* the rowids of the runs of train id, and of its open runs
RunsOf(R, id) ==
    {i \in DOMAIN R : R[i].train_id = id}

OpenRunsOf(R, id) ==
    {i \in RunsOf(R, id) : R[i].stop_time = Null}

\* the rowids of the runs of train id with the most recent start_time
LatestRunsOf(R, id) ==
    {i \in RunsOf(R, id) : \A j \in RunsOf(R, id) : R[i].start_time.iso >= R[j].start_time.iso}

TrainExists(T, id) ==
    \E i \in DOMAIN T : T[i].id = id

TrainById(T, id) ==
    T[CHOOSE i \in DOMAIN T : T[i].id = id]

\* table T2 is table T1 with one row appended
Appended(T1, T2) ==
    Len(T2) = Len(T1) + 1 /\ SubSeq(T2, 1, Len(T1)) = T1

\* C1: every start command whose fields pass validation adds exactly one train
\* (active, with the generated id, updated_at = now) and exactly one open run
\* whose train_id is that train's id, whose start_time is its updated_at and
\* whose snapshot equals its fields; nothing else is created or changed.
C1_StartCreatesTrainAndRun ==
    [][(Handles("POST") /\ validateTrain(Normalized(res'.req)) = NoError) =>
        /\ Appended(trains, trains')
        /\ Appended(runs, runs')
        /\ LET t == trains'[Len(trains')]
               r == runs'[Len(runs')]
           IN  /\ t.active = Num(1)
               /\ t.id = Uuid(uuids + 1)
               /\ t.updated_at = Iso(res'.now)
               /\ r.train_id = t.id
               /\ r.stop_time = Null
               /\ r.start_time = t.updated_at
               /\ \A k \in FIELDS : r[k] = t[k]]_vars

\* C1, on the bodies that carry neither an id nor an updated_at key: the
\* same statement, which the handler meets on these.
C1_HoldsWithoutIdAndUpdatedAtKeys ==
    [][(Handles("POST") /\ validateTrain(Normalized(res'.req)) = NoError
            /\ res'.req.id = Undef /\ res'.req.updated_at = Undef) =>
        /\ Appended(trains, trains')
        /\ Appended(runs, runs')
        /\ LET t == trains'[Len(trains')]
               r == runs'[Len(runs')]
           IN  /\ t.active = Num(1)
               /\ t.id = Uuid(uuids + 1)
               /\ t.updated_at = Iso(res'.now)
               /\ r.train_id = t.id
               /\ r.stop_time = Null
               /\ r.start_time = t.updated_at
               /\ \A k \in FIELDS : r[k] = t[k]]_vars

\* C2: a stop of an existing train that has exactly one open run sets that
\* run's stop_time to the stop timestamp, leaves every other run as it was
\* and creates no run.
C2_StopClosesTheOpenRun ==
    [][(/\ Handles("DELETE")
        /\ TrainExists(trains, res'.id)
        /\ Cardinality(OpenRunsOf(runs, res'.id)) = 1) =>
        /\ Len(runs') = Len(runs)
        /\ \A i \in DOMAIN runs :
              runs'[i] = IF i \in OpenRunsOf(runs, res'.id)
                         THEN [runs[i] EXCEPT !.stop_time = Iso(res'.now)]
                         ELSE runs[i]]_vars

\* a stop has just closed the open run of one train while another train's run
\* stays open
C2_Witness ==
    /\ res.op = "DELETE" /\ res.status = 200 /\ res.tier = 1
    /\ \E i \in RunsOf(runs, res.id) : runs[i].stop_time = Iso(res.now)
    /\ \E i \in DOMAIN runs : runs[i].train_id # res.id /\ runs[i].stop_time = Null

\* C3: every successful stop of train T at instant t leaves a run with
\* train_id = T and stop_time = t in the ledger, whichever branch it took.
C3_StopLeavesATrace ==
    [][(Handles("DELETE") /\ res'.status = 200) =>
        \E i \in DOMAIN runs' :
            runs'[i].train_id = res'.id /\ runs'[i].stop_time = Iso(res'.now)]_vars

\* a stop that found no open run has succeeded
C3_Witness ==
    /\ res.op = "DELETE" /\ res.status = 200 /\ res.tier \in {2, 3}
    /\ \E i \in RunsOf(runs, res.id) : runs[i].stop_time = Iso(res.now)

\* C4: a stop of an existing train that has runs but no open run succeeds,
\* overwrites the stop_time of its run with the most recent start_time,
\* creates no run and leaves every other run as it was.
C4_StopOverwritesLatestRun ==
    [][(/\ Handles("DELETE")
        /\ TrainExists(trains, res'.id)
        /\ OpenRunsOf(runs, res'.id) = {}
        /\ RunsOf(runs, res'.id) # {}) =>
        /\ res'.status = 200
        /\ \E i \in LatestRunsOf(runs, res'.id) :
              runs' = [runs EXCEPT ![i].stop_time = Iso(res'.now)]]_vars

\* a train stopped at an earlier instant has been stopped again: its run,
\* closed before, now carries the later stop_time
C4_Witness ==
    /\ res.op = "DELETE" /\ res.status = 200 /\ res.tier = 2
    /\ \E i \in RunsOf(runs, res.id) :
          runs[i].stop_time = Iso(res.now) /\ runs[i].start_time.iso < res.now
    /\ \E i \in DOMAIN runs : runs[i].train_id # res.id

\* C5: a stop of an existing train for which the ledger holds no run inserts
\* exactly one run, with train_id = T, start_time = stop_time = the stop
\* timestamp and the train's registry fields, and changes no existing run.
C5_StopSynthesizesRun ==
    [][(/\ Handles("DELETE")
        /\ TrainExists(trains, res'.id)
        /\ RunsOf(runs, res'.id) = {}) =>
        /\ Appended(runs, runs')
        /\ LET r == runs'[Len(runs')]
               t == TrainById(trains, res'.id)
           IN  /\ r.train_id = res'.id
               /\ r.start_time = Iso(res'.now)
               /\ r.stop_time = Iso(res'.now)
               /\ \A k \in FIELDS : r[k] = t[k]]_vars

\* a train without any run has been stopped at an instant later than its
\* updated_at, with other runs in the ledger
C5_Witness ==
    /\ res.op = "DELETE" /\ res.status = 200 /\ res.tier = 3
    /\ Cardinality(RunsOf(runs, res.id)) = 1
    /\ Len(runs) >= 2

\* the order of the location strings, spelled out
C6_LocationBefore(a, b) ==
    \/ a = Str("Lower loop 1") /\ b \in {Str("Lower loop 2"), Str("Upper loop")}
    \/ a = Str("Lower loop 2") /\ b = Str("Upper loop")

\* L lists exactly the active trains of T, each with its columns, by location
\* ascending and within a location by updated_at descending
C6_IsRosterOf(L, T) ==
    /\ Len(L) = Cardinality({i \in DOMAIN T : T[i].active = Num(1)})
    /\ \A i \in DOMAIN T :
          T[i].active = Num(1) <=> \E j \in DOMAIN L : L[j].id = T[i].id
    /\ \A j \in DOMAIN L :
          \E i \in DOMAIN T : L[j] = [k \in DOMAIN T[i] \ {"owner", "active"} |-> T[i][k]]
    /\ \A i \in DOMAIN L : \A j \in DOMAIN L : i < j =>
          \/ C6_LocationBefore(L[i].location, L[j].location)
          \/ /\ L[i].location = L[j].location
             /\ L[i].updated_at.iso >= L[j].updated_at.iso

\* C6: in every state listActive() is exactly the active trains, ordered by
\* location ascending and then updated_at descending; GET /api/running
\* answers with it and changes neither table nor any viewer's messages.
C6_ListActiveIsTheOrderedRoster ==
    [][/\ C6_IsRosterOf(stmtListRunning(trains'), trains')
       /\ Handles("GET") =>
            /\ res'.json.trains = stmtListRunning(trains)
            /\ UNCHANGED <<trains, runs, inbox, readyState, clients>>]_vars

\* the roster just published lists two trains against their insertion order
\* (the later train's location sorts first)
C6_Witness ==
    /\ res.pubs # <<>>
    /\ Len(res.pubs[1]) = 2
    /\ res.pubs[1][1].id = trains[2].id
    /\ res.pubs[1][2].id = trains[1].id

\* C7: the first message of every connection is "running:init" with the
\* roster of the moment of connection, every later message is
\* "running:update", and nothing is sent on a socket before it connects.
C7_InitComesFirst ==
    [][\A v \in Viewers :
        /\ (readyState[v] = 0 /\ readyState'[v] # 0) =>
              inbox'[v] = <<Message("running:init", stmtListRunning(trains))>>
        /\ readyState'[v] = 0 => inbox'[v] = <<>>
        /\ readyState'[v] # 0 =>
              /\ Len(inbox'[v]) >= 1
              /\ inbox'[v][1].event = "running:init"
              /\ \A i \in 2 .. Len(inbox'[v]) : inbox'[v][i].event = "running:update"]_vars

\* a viewer that connected while a train was running got it in its init and
\* a different roster in an update afterwards
C7_Witness ==
    \E v \in Viewers :
        /\ Len(inbox[v]) >= 2
        /\ Len(inbox[v][1].payload) = 1
        /\ inbox[v][2].payload # inbox[v][1].payload

\* the statements that write a table
C8_Writes ==
    {"stmtInsert", "stmtInsertRun", "stmtUpdate", "stmtDeactivate", "stmtUpdateRunStop"}

\* C8: every successful start, update and stop calls broadcast exactly once,
\* after its table writes, with listActive() of the state it has written:
\* each open viewer gets exactly that one message.
C8_OnePublishPerMutation ==
    [][(res'.n = res.n + 1 /\ res'.op \in {"POST", "PATCH", "DELETE"}
            /\ res'.status \in {200, 201}) =>
        /\ Cardinality({i \in DOMAIN res'.did : res'.did[i] = "broadcast"}) = 1
        /\ \A i \in DOMAIN res'.did : \A j \in DOMAIN res'.did :
              (res'.did[i] = "broadcast" /\ res'.did[j] \in C8_Writes) => j < i
        /\ \E j \in DOMAIN res'.did : res'.did[j] \in C8_Writes
        /\ \A v \in Viewers :
              (v \in clients /\ readyState[v] = 1) =>
                  inbox'[v] = Append(inbox[v],
                                     Message("running:update", stmtListRunning(trains')))]_vars

\* an update has moved a train and an open viewer's last message is the
\* roster with the train at its new location
C8_Witness ==
    /\ res.op = "PATCH" /\ res.status = 200
    /\ \E v \in Viewers :
          /\ readyState[v] = 1
          /\ Len(inbox[v]) >= 2
          /\ inbox[v][Len(inbox[v])].event = "running:update"
          /\ \E j \in DOMAIN inbox[v][Len(inbox[v])].payload :
                LET row == inbox[v][Len(inbox[v])].payload[j]
                IN  /\ row.id = res.id
                    /\ row.location = Str("Lower loop 2")
                    /\ row.updated_at = Iso(res.now)

\* this step is a publish: a handler has called broadcast
C9_Publishes ==
    res'.n = res.n + 1 /\ res'.pubs # <<>>

\* C9: a publish appends one "running:update" with the roster to the messages
\* of every socket that is in wss.clients and OPEN, and to no other, and the
\* request is answered 200 / 201 whoever was skipped; no other step ever
\* delivers an update, so a skipped one never arrives later.
C9_PublishReachesOpenViewersOnly ==
    [][\A v \in Viewers :
        /\ C9_Publishes => res'.status \in {200, 201}
        /\ IF C9_Publishes /\ v \in clients /\ readyState[v] = 1
           THEN inbox'[v] = Append(inbox[v], Message("running:update", res'.pubs[1]))
           ELSE \/ inbox'[v] = inbox[v]
                \/ /\ readyState[v] = 0
                   /\ Len(inbox'[v]) = 1
                   /\ inbox'[v][1].event = "running:init"]_vars

\* a publish has been made while a socket was CLOSING: the socket is still in
\* wss.clients and its only message is its init
C9_Witness ==
    /\ res.pubs # <<>>
    /\ \E v \in clients :
          /\ readyState[v] = 2
          /\ Len(inbox[v]) = 1
          /\ inbox[v][1].payload # res.pubs[1]

\* C10: a start that fails validation, an update of an unknown id or with an
\* invalid merged record, and a stop of an unknown id are answered 400 / 404
\* and change no train, no run and no viewer's messages.
C10_RejectedCommandChangesNothing ==
    [][/\ (Handles("POST") /\ validateTrain(Normalized(res'.req)) # NoError) =>
              res'.status = 400
       /\ (Handles("PATCH") /\ ~TrainExists(trains, res'.id)) => res'.status = 404
       /\ (Handles("PATCH") /\ TrainExists(trains, res'.id)
              /\ validateTrain(Merged(TrainById(trains, res'.id), res'.req, res'.id)) # NoError)
              => res'.status = 400
       /\ (Handles("DELETE") /\ ~TrainExists(trains, res'.id)) => res'.status = 404
       /\ (res'.n = res.n + 1 /\ res'.status \in {400, 404}) =>
              /\ UNCHANGED <<trains, runs, inbox>>
              /\ res'.pubs = <<>>]_vars

\* an update with an empty name has been rejected while a train is running
\* and a viewer is open
C10_Witness ==
    /\ res.op = "PATCH" /\ res.status = 400
    /\ res.json = [error |-> "name required"]
    /\ \E i \in DOMAIN trains : trains[i].id = res.id /\ trains[i].active = Num(1)
    /\ \E v \in Viewers : readyState[v] = 1

\* this step is a start, an update or a stop that was answered 200 / 201
C11_Succeeds ==
    res'.n = res.n + 1 /\ res'.op \in {"POST", "PATCH", "DELETE"} /\ res'.status \in {200, 201}

\* C11: every successful start, update and stop runs a statement that writes
\* train_runs (it inserts a run or sets a run's stop_time).
C11_EveryMutationWritesTheLedger ==
    [][C11_Succeeds =>
        \E i \in DOMAIN res'.did : res'.did[i] \in {"stmtInsertRun", "stmtUpdateRunStop"}]_vars

\* C12: a start or stop that the store fails (answered 500) leaves the
\* registry and the ledger both as they were or both written: never a train
\* inserted or deactivated without its run opened or closed.
C12_FailedCommandIsAllOrNothing ==
    [][(res'.n = res.n + 1 /\ res'.op \in {"POST", "DELETE"} /\ res'.status = 500) =>
        (trains' # trains <=> runs' # runs)]_vars

\* this step handles a start, an update or a stop that passes validation and
\* the lookup of its train
C13_CommandIsAccepted ==
    /\ res'.n = res.n + 1
    /\ \/ res'.op = "POST" /\ validateTrain(Normalized(res'.req)) = NoError
       \/ /\ res'.op \in {"PATCH", "DELETE"}
          /\ TrainExists(trains, res'.id)
          /\ res'.op = "PATCH" =>
                validateTrain(Merged(TrainById(trains, res'.id), res'.req, res'.id)) = NoError

C14_Elapsed(r) ==
    (IF r.stop_time = Null THEN res.now ELSE r.stop_time.iso) - r.start_time.iso

\* m is the whole number of minutes nearest to ms milliseconds (a half going
\* up), and 0 when that is negative
C14_IsMinutesOf(m, ms) ==
    IF ms < 0 - MsPerMinute \div 2
    THEN m = 0
    ELSE /\ m >= 0
         /\ MsPerMinute * m - MsPerMinute \div 2 <= ms
         /\ ms < MsPerMinute * m + MsPerMinute \div 2

\* C14: every run of a report carries duration.minutes = max(0, round(end -
\* start_time in minutes)), hours = floor(minutes / 60) and remainderMinutes
\* = minutes mod 60, so minutes >= 0, 0 <= remainderMinutes < 60 and
\* 60 * hours + remainderMinutes = minutes; a run of 95 minutes reports
\* minutes 95, hours 1, remainderMinutes 35.
C14_ReportDurations ==
    (res.op = "REPORT" /\ res.status = 200) =>
        \A i \in DOMAIN res.json.runs :
            LET r == res.json.runs[i]
                d == r.duration
            IN  /\ C14_IsMinutesOf(d.minutes, C14_Elapsed(r))
                /\ d.minutes >= 0
                /\ d.hours >= 0
                /\ d.remainderMinutes \in 0 .. 59
                /\ 60 * d.hours + d.remainderMinutes = d.minutes
                /\ C14_Elapsed(r) = 95 * MsPerMinute =>
                      d = [minutes |-> 95, hours |-> 1, remainderMinutes |-> 35]

\* a report lists a run stopped 95 minutes after its start, with minutes 95,
\* hours 1 and remainderMinutes 35
C14_Witness ==
    /\ res.op = "REPORT" /\ res.status = 200
    /\ \E i \in DOMAIN res.json.runs :
          /\ res.json.runs[i].stop_time # Null
          /\ C14_Elapsed(res.json.runs[i]) = 95 * MsPerMinute
          /\ res.json.runs[i].duration =
                [minutes |-> 95, hours |-> 1, remainderMinutes |-> 35]

\* the scenario has run: from the empty store, after the viewers connected,
\* the three requests were a start, the stop of that train and a report for
\* the day the train started
C15_ScenarioDone ==
    /\ \E v \in Viewers : readyState[v] # 0
    /\ res.n = 3 /\ res.op = "REPORT" /\ res.status = 200
    /\ Len(trains) = 1 /\ trains[1].active = Num(0)
    /\ trains[1].location = Str("Upper loop")
    /\ res.date = DateOf(runs[1].start_time)

\* what the scenario's viewer has received, and the report's one run
C15_ViewerSawStartAndStop ==
    \A v \in Viewers : readyState[v] # 0 =>
        /\ Len(inbox[v]) = 3
        /\ inbox[v][1] = Message("running:init", <<>>)
        /\ inbox[v][2].event = "running:update"
        /\ Len(inbox[v][2].payload) = 1
        /\ inbox[v][2].payload[1].id = trains[1].id
        /\ inbox[v][2].payload[1].location = Str("Upper loop")
        /\ inbox[v][3] = Message("running:update", <<>>)

C15_ReportHasTheRun ==
    /\ Len(res.json.runs) = 1
    /\ res.json.runs[1].train_id = trains[1].id
    /\ res.json.runs[1].stop_time # Null

\* C15 as stated: after viewer connects, start A at "Upper loop", stop A, the
\* viewer has received init with 0 trains, update with A, update with 0
\* trains, and the report for that date has exactly one run, A's, with
\* stop_time set and duration greater than 0.
C15_EndToEnd_AsStated ==
    C15_ScenarioDone =>
        /\ C15_ViewerSawStartAndStop
        /\ C15_ReportHasTheRun
        /\ res.json.runs[1].duration.minutes > 0

\* C15: the same, with the duration as the report computes it: 0 or more
\* minutes, and more than 0 exactly when the stop came at least half a
\* minute after the start.
C15_EndToEnd ==
    C15_ScenarioDone =>
        /\ C15_ViewerSawStartAndStop
        /\ C15_ReportHasTheRun
        /\ res.json.runs[1].duration.minutes >= 0
        /\ res.json.runs[1].duration.minutes > 0 <=>
              runs[1].stop_time.iso - runs[1].start_time.iso >= MsPerMinute \div 2

\* the scenario has run with a viewer connected, the stop 95 minutes after
\* the start
C15_Witness ==
    /\ C15_ScenarioDone
    /\ \E v \in Viewers : readyState[v] = 1 /\ Len(inbox[v]) = 3
    /\ res.json.runs[1].duration.minutes = 95

C16_NonEmptyString(v) ==
    v.t = "string" /\ v # Str("")

C16_OneOf(v, names) ==
    \E n \in names : v = Str(n)

\* record body violates the domain rule of field k
C16_Violates(body, k) ==
    CASE k \in {"name", "railway", "country", "years"} -> ~C16_NonEmptyString(body[k])
      [] k = "power" -> ~C16_OneOf(body[k], {"Steam", "Diesel", "Electric"})
      [] k = "trainType" -> ~C16_OneOf(body[k], {"Passenger", "Freight", "Special", "Mixed"})
      [] k = "powerType" -> ~C16_OneOf(body[k], {"AC", "DC", "Digital"})
      [] k = "numberOfCars" -> ~\E n \in 0 .. 100 : body[k] = Num(n)
      [] k = "location" ->
            ~C16_OneOf(body[k], {"Upper loop", "Lower loop 1", "Lower loop 2"})
      [] k \in {"notes", "owner"} -> ~(body[k] = Undef \/ body[k].t = "string")

C16_Message ==
    [name |-> "name required",
     railway |-> "railway required",
     country |-> "country required (emoji flag)",
     power |-> "power must be one of: Steam, Diesel, Electric",
     trainType |-> "trainType must be one of: Passenger, Freight, Special, Mixed",
     powerType |-> "powerType must be one of: AC, DC, Digital",
     numberOfCars |-> "numberOfCars must be an integer between 0 and 100",
     years |-> "years required (e.g. 1950 or 1950-1960)",
     location |-> "location must be one of: Upper loop, Lower loop 1, Lower loop 2",
     notes |-> "notes must be a string",
     owner |-> "owner must be a string"]

\* the message of the first rule, in the given order, that body violates
C16_FirstViolated(body, order) ==
    LET bad == {i \in DOMAIN order : C16_Violates(body, order[i])}
    IN  IF bad = {} THEN NoError
        ELSE C16_Message[order[CHOOSE i \in bad : \A j \in bad : i <= j]]

\* C16 as stated: validateTrain returns the message of the first violated
\* rule in the order name, railway, country, power, trainType, powerType,
\* numberOfCars, years, location, notes, owner, and null iff none is violated.
C16_FirstViolatedRule_AsStated ==
    res.op = "validateTrain" =>
        res.json.error =
            C16_FirstViolated(res.req,
                <<"name", "railway", "country", "power", "trainType", "powerType",
                  "numberOfCars", "years", "location", "notes", "owner">>)

\* C16: validateTrain returns the message of the first violated rule in the
\* order name, railway, country, power, trainType, numberOfCars, powerType,
\* years, location, notes, owner, and null iff no rule is violated.
C16_FirstViolatedRule ==
    res.op = "validateTrain" =>
        res.json.error =
            C16_FirstViolated(res.req,
                <<"name", "railway", "country", "power", "trainType", "numberOfCars",
                  "powerType", "years", "location", "notes", "owner">>)

\* a record with 101 cars, powerType "Analog", no years and a boolean owner
\* has been validated: the message is the one for numberOfCars
C16_Witness ==
    /\ res.op = "validateTrain"
    /\ res.req.numberOfCars = Num(101)
    /\ res.req.powerType = Str("Analog")
    /\ res.req.years = Str("")
    /\ res.req.owner = Bool(TRUE)
    /\ res.json.error = "numberOfCars must be an integer between 0 and 100"

\* C17: no step removes a run or changes a run's id, train_id, start_time or
\* snapshot fields: stop_time is the only column of an existing run that is
\* ever written, and a successful update leaves train_runs as it was.
C17_RunsAreImmutableButStopTime ==
    [][/\ Len(runs') >= Len(runs)
       /\ \A i \in DOMAIN runs : \A k \in RunColumns \ {"stop_time"} :
             runs'[i][k] = runs[i][k]
       /\ Handles("PATCH") => runs' = runs]_vars

\* an update has moved a running train to "Lower loop 2" and the train's
\* open run still shows the location it started at
C17_Witness ==
    /\ res.op = "PATCH" /\ res.status = 200
    /\ \E i \in DOMAIN trains, j \in DOMAIN runs :
          /\ trains[i].id = res.id
          /\ runs[j].train_id = res.id
          /\ runs[j].stop_time = Null
          /\ trains[i].location = Str("Lower loop 2")
          /\ runs[j].location # Str("Lower loop 2")

\* C18: in every reachable state each train_id has at most one run with
\* stop_time = null.
C18_AtMostOneOpenRunPerTrain ==
    \A j \in DOMAIN runs : Cardinality(OpenRunsOf(runs, runs[j].train_id)) <= 1

\* a stopped train has been stopped again, at a later instant or the same:
\* its one run is closed
C18_Witness ==
    /\ res.op = "DELETE" /\ res.status = 200 /\ res.tier = 2
    /\ Cardinality(RunsOf(runs, res.id)) = 1
    /\ OpenRunsOf(runs, res.id) = {}

\* C19: in every reachable state every active train has its location, power,
\* trainType and powerType inside their enumerations and numberOfCars an
\* integer from 0 to 100, whatever starts and updates were tried.
C19_ActiveTrainsAreInDomain ==
    \A i \in DOMAIN trains : trains[i].active = Num(1) =>
        /\ trains[i].location \in {Str("Upper loop"), Str("Lower loop 1"), Str("Lower loop 2")}
        /\ trains[i].power \in {Str("Steam"), Str("Diesel"), Str("Electric")}
        /\ trains[i].trainType \in
              {Str("Passenger"), Str("Freight"), Str("Special"), Str("Mixed")}
        /\ trains[i].powerType \in {Str("AC"), Str("DC"), Str("Digital")}
        /\ trains[i].numberOfCars \in {Num(n) : n \in 0 .. 100}

\* an update to location "Siding" has been refused and the train is still
\* running at a location of the layout
C19_Witness ==
    /\ res.op = "PATCH" /\ res.status = 400
    /\ res.req.location = Str("Siding")
    /\ \E i \in DOMAIN trains :
          /\ trains[i].id = res.id
          /\ trains[i].active = Num(1)
          /\ trains[i].location = Str("Upper loop")

\* C20: in every reachable state a train is active iff the ledger holds an
\* open run with its id as train_id, every train has exactly one run with its
\* id as train_id, and no stop has taken the branch that synthesizes a run.
C20_ActiveIffOpenRun ==
    /\ \A i \in DOMAIN trains :
          /\ trains[i].active = Num(1) <=> OpenRunsOf(runs, trains[i].id) # {}
          /\ Cardinality(RunsOf(runs, trains[i].id)) = 1
    /\ res.tier # 3

\* the payload of the last message sent to viewer v
C21_View(v) ==
    inbox[v][Len(inbox[v])].payload

\* C21: in every state (after each handler and each connection) every viewer
\* that is OPEN, and so has been writable ever since it connected, has as its
\* last message the current listActive(); and a publish made while a viewer
\* is OPEN leaves it with the roster of the state published.
C21_OpenViewerSeesTheRoster ==
    /\ \A v \in Viewers :
          readyState[v] = 1 =>
              /\ inbox[v] # <<>>
              /\ C21_View(v) = stmtListRunning(trains)
    /\ \A v \in Viewers :
          (readyState[v] = 1 /\ res.pubs # <<>> /\ Len(inbox[v]) >= 2) =>
              C21_View(v) = res.pubs[1]

\* the ids of the trains of T whose active flag is 0
C22_Stopped(T) ==
    {T[i].id : i \in {j \in DOMAIN T : T[j].active = Num(0)}}

\* C22: an update changes neither the id nor the active flag of any train,
\* whatever keys its body carries, and leaves every train but the one
\* addressed as it was; no step removes a train, changes a train's id or makes
\* a stopped train active again, and no stopped train is in listActive() or
\* in a published roster.
C22_UpdateKeepsIdAndActive ==
    [][/\ Len(trains') >= Len(trains)
       /\ \A i \in DOMAIN trains :
             /\ trains'[i].id = trains[i].id
             /\ trains[i].active = Num(0) => trains'[i].active = Num(0)
             /\ Handles("PATCH") =>
                   /\ trains'[i].active = trains[i].active
                   /\ trains[i].id # res'.id => trains'[i] = trains[i]
       /\ \A j \in DOMAIN stmtListRunning(trains') :
             stmtListRunning(trains')[j].id \notin C22_Stopped(trains) \cup C22_Stopped(trains')
       /\ \A p \in DOMAIN res'.pubs : \A j \in DOMAIN res'.pubs[p] :
             res'.pubs[p][j].id \notin C22_Stopped(trains) \cup C22_Stopped(trains')]_vars

\* an update whose body carries "active": 1, an id and an updated_at has
\* succeeded on a stopped train: the train is still stopped, under the id of
\* the path, and the roster published does not list it
C22_Witness ==
    /\ res.op = "PATCH" /\ res.status = 200
    /\ res.req.active = Num(1)
    /\ res.req.id # Undef /\ res.req.id # res.id
    /\ \E i \in DOMAIN trains :
          /\ trains[i].id = res.id
          /\ trains[i].active = Num(0)
          /\ trains[i].updated_at = Iso(res.now)
    /\ \A j \in DOMAIN res.pubs[1] : res.pubs[1][j].id # res.id

====
